---- MODULE Spec2Model ----
(***************************************************************************)
(* Model of the Google GenAI provider adapter:                             *)
(*   - GoogleGenerativeAIEmbeddings (embeddings.ts): constructor,          *)
(*     _cleanText, _embedConfig, _embedQueryContent, _embedDocumentsContent*)
(*   - convertToolsToGenAI (utils/tools.ts): processTools,                 *)
(*     convertOpenAIToolToGenAI, createToolConfig                          *)
(*                                                                         *)
(* Optional JavaScript values are sequences: <<>> is undefined, <<v>> is   *)
(* the value v.  A text is a sequence of one-character strings.            *)
(***************************************************************************)
EXTENDS Integers, Sequences, FiniteSets, TLC

VARIABLES ctorArgs, inst, pc, requests, text, documents, batchEmbedChunks,
          responses, result, toolsIn, extraIn, toolsOut

vars == <<ctorArgs, inst, pc, requests, text, documents, batchEmbedChunks,
          responses, result, toolsIn, extraIn, toolsOut>>

toolVars == <<toolsIn, extraIn, toolsOut>>

----------------------------------------------------------------------------
(* Bounds *)

MaxTextLen == 3

MaxTail == 1

MaxTools == 3

----------------------------------------------------------------------------
(* Generic helpers *)

Undefined == <<>>

Some(v) == <<v>>

NL == "\n"

SP == " "

Range(s) == {s[i] : i \in 1..Len(s)}

RECURSIVE Flatten(_)
Flatten(ss) == IF ss = <<>> THEN <<>> ELSE Head(ss) \o Flatten(Tail(ss))

RECURSIVE SeqsUpTo(_, _)
SeqsUpTo(S, n) ==
  IF n = 0 THEN {<<>>}
  ELSE LET shorter == SeqsUpTo(S, n - 1)
       IN shorter \cup {Append(s, x) : s \in {t \in shorter : Len(t) = n - 1}, x \in S}

\* JavaScript truthiness of an optional string: undefined and "" are falsy.
Truthy(opt) == opt # Undefined /\ opt[1] # ""

----------------------------------------------------------------------------
(* Embeddings client: inputs *)

Chars == {"a", "b", NL}

Texts == SeqsUpTo(Chars, MaxTextLen)

TaskTypes == {Undefined, Some(""), Some("RETRIEVAL_DOCUMENT"), Some("RETRIEVAL_QUERY")}

Titles == {Undefined, Some(""), Some("T")}

Dimensionalities == {Undefined, Some(0), Some(128)}

ApiKeys == {Undefined, Some(""), Some("test-key")}

EnvKeys == {Undefined, Some(""), Some("env-key")}

FieldSets == [taskType : TaskTypes, title : Titles,
              outputDimensionality : Dimensionalities, apiKey : ApiKeys]

maxBatchSize == 100

DocLens == {0, 1, maxBatchSize - 1, maxBatchSize, maxBatchSize + 1, 2 * maxBatchSize}
           \cup (2 * maxBatchSize + 1 .. 2 * maxBatchSize + MaxTail)

\* The i-th document of an input list: distinct per index, with and without newlines.
DocText(i) ==
  IF i % 3 = 0 THEN <<ToString(i)>>
  ELSE IF i % 3 = 1 THEN <<ToString(i), NL, "x">>
  ELSE <<NL, ToString(i), NL>>

DocList(n) == [i \in 1..n |-> DocText(i)]

----------------------------------------------------------------------------
(* Embeddings client: code *)

NoInstance ==
  [status |-> "none", error |-> "", taskType |-> Undefined, title |-> Undefined,
   outputDimensionality |-> Undefined, apiKey |-> Undefined,
   stripNewLines |-> TRUE, client |-> FALSE]

\* constructor(fields): field defaults, the title check, the credential check,
\* then the vendor client.
Constructor(fields, env) ==
  LET taskType == fields.taskType
      title == fields.title
      outputDimensionality == fields.outputDimensionality
      apiKey == IF fields.apiKey # Undefined THEN fields.apiKey ELSE env
      base == [NoInstance EXCEPT !.taskType = taskType, !.title = title,
                                 !.outputDimensionality = outputDimensionality]
  IN IF Truthy(title) /\ taskType # Some("RETRIEVAL_DOCUMENT")
     THEN [base EXCEPT !.status = "error", !.error = "title"]
     ELSE IF ~Truthy(apiKey)
     THEN [base EXCEPT !.status = "error", !.error = "apiKey", !.apiKey = apiKey]
     ELSE [base EXCEPT !.status = "ok", !.apiKey = apiKey, !.client = TRUE]

ReplaceFirstNewline(t) ==
  IF \E i \in 1..Len(t) : t[i] = NL
  THEN LET k == CHOOSE i \in 1..Len(t) : t[i] = NL /\ \A j \in 1..(i - 1) : t[j] # NL
       IN [t EXCEPT ![k] = SP]
  ELSE t

ReplaceNewlines(t) == [i \in 1..Len(t) |-> IF t[i] = NL THEN SP ELSE t[i]]

_cleanTextFirstOnly(self, t) == IF self.stripNewLines THEN ReplaceFirstNewline(t) ELSE t

_cleanText(self, t) == IF self.stripNewLines THEN ReplaceNewlines(t) ELSE t

EmptyConfig == [taskType |-> Undefined, title |-> Undefined, outputDimensionality |-> Undefined]

_embedConfigTruthyDim(self) ==
  LET config == [taskType |-> IF Truthy(self.taskType) THEN self.taskType ELSE Undefined,
                 title |-> IF Truthy(self.title) THEN self.title ELSE Undefined,
                 outputDimensionality |->
                   IF self.outputDimensionality # Undefined /\ self.outputDimensionality[1] # 0
                   THEN self.outputDimensionality ELSE Undefined]
  IN IF config # EmptyConfig THEN Some(config) ELSE Undefined

\* A config key that was never assigned is Undefined in the record.
_embedConfig(self) ==
  LET config == [taskType |-> IF Truthy(self.taskType) THEN self.taskType ELSE Undefined,
                 title |-> IF Truthy(self.title) THEN self.title ELSE Undefined,
                 outputDimensionality |-> self.outputDimensionality]
  IN IF config # EmptyConfig THEN Some(config) ELSE Undefined

EmbedRequest(self, contents) == [contents |-> contents, config |-> _embedConfig(self)]

\* The vendor's vector for a content: non-empty and determined by the content.
VendorVector(content) == <<"v">> \o content

Rejected == [status |-> "rejected", embeddings |-> Undefined]

Pending == [status |-> "pending", embeddings |-> Undefined]

Fulfilled(embeddings) == [status |-> "fulfilled", embeddings |-> embeddings]

\* What the vendor may answer to a request with these contents.
VendorResponses(contents) ==
  { Rejected,
    Fulfilled(Undefined),
    Fulfilled(Some([i \in 1..Len(contents) |-> [values |-> Undefined]])),
    Fulfilled(Some([i \in 1..Len(contents) |-> [values |-> Some(VendorVector(contents[i]))]])) }

QueryResponses(contents) == VendorResponses(contents) \cup {Fulfilled(Some(<<>>))}

\* res.embeddings?.[0]?.values ?? []
FirstValues(res) ==
  IF res.embeddings = Undefined THEN <<>>
  ELSE IF Len(res.embeddings[1]) = 0 THEN <<>>
  ELSE IF res.embeddings[1][1].values = Undefined THEN <<>>
  ELSE res.embeddings[1][1].values[1]

\* chunkArray(arr, chunkSize): consecutive chunks of chunkSize, the last one shorter.
chunkArray(arr, chunkSize) ==
  LET n == (Len(arr) + chunkSize - 1) \div chunkSize
  IN [c \in 1..n |->
        SubSeq(arr, (c - 1) * chunkSize + 1,
               IF c * chunkSize < Len(arr) THEN c * chunkSize ELSE Len(arr))]

\* The flatMap callback of _embedDocumentsContent.
ChunkEmbeddings(res, chunk) ==
  IF res.status = "fulfilled"
  THEN IF res.embeddings = Undefined THEN <<>>
       ELSE [i \in 1..Len(res.embeddings[1]) |->
               IF res.embeddings[1][i].values = Undefined THEN <<>>
               ELSE res.embeddings[1][i].values[1]]
  ELSE [i \in 1..Len(chunk) |-> <<>>]

AnySettledRejected(rs) ==
  (\E i \in 1..Len(rs) : rs[i].status = "rejected")
  \/ (\A i \in 1..Len(rs) : rs[i].status # "pending")

\* Promise.allSettled resolves once no promise is pending.
AllSettled(rs) == \A i \in 1..Len(rs) : rs[i].status # "pending"

NoResult == [status |-> "none", value |-> <<>>]

Idle == pc = "idle"

----------------------------------------------------------------------------
(* Embeddings client: actions *)

InitTools ==
  /\ toolsIn = <<>>
  /\ extraIn = Undefined
  /\ toolsOut = [status |-> "none", tools |-> <<>>, toolConfig |-> Undefined, message |-> ""]

InitEmb ==
  /\ ctorArgs = Undefined
  /\ inst = NoInstance
  /\ pc = "idle"
  /\ requests = <<>>
  /\ text = <<>>
  /\ documents = <<>>
  /\ batchEmbedChunks = <<>>
  /\ responses = <<>>
  /\ result = NoResult

Init == InitEmb /\ InitTools

\* new GoogleGenerativeAIEmbeddings(fields) with GOOGLE_API_KEY = env
Construct ==
  /\ inst.status = "none"
  /\ \E fields \in FieldSets, env \in EnvKeys :
       /\ ctorArgs' = Some([fields |-> fields, env |-> env])
       /\ inst' = Constructor(fields, env)
  /\ UNCHANGED <<pc, requests, text, documents, batchEmbedChunks, responses, result>>
  /\ UNCHANGED toolVars

\* embeddings.stripNewLines = b (public field)
SetStripNewLines ==
  /\ inst.status = "ok"
  /\ pc = "idle"
  /\ \E b \in BOOLEAN : b # inst.stripNewLines /\ inst' = [inst EXCEPT !.stripNewLines = b]
  /\ UNCHANGED <<ctorArgs, pc, requests, text, documents, batchEmbedChunks, responses,
                 result>>
  /\ UNCHANGED toolVars

\* embedQuery(t): _embedQueryContent up to its await
EmbedQuery ==
  /\ inst.status = "ok"
  /\ Idle
  /\ \E t \in Texts :
       /\ text' = t
       /\ requests' = <<EmbedRequest(inst, <<_cleanText(inst, t)>>)>>
  /\ pc' = "q_wait"
  /\ documents' = <<>>
  /\ batchEmbedChunks' = <<>>
  /\ responses' = <<Pending>>
  /\ result' = NoResult
  /\ UNCHANGED <<ctorArgs, inst>>
  /\ UNCHANGED toolVars

\* the vendor settles the query request; _embedQueryContent resumes
QuerySettle ==
  /\ pc = "q_wait"
  /\ \E res \in QueryResponses(requests[1].contents) :
       /\ responses' = <<res>>
       /\ result' = IF res.status = "rejected"
                    THEN [status |-> "rejected", value |-> <<>>]
                    ELSE [status |-> "fulfilled", value |-> FirstValues(res)]
  /\ pc' = "q_done"
  /\ UNCHANGED <<ctorArgs, inst, requests, text, documents, batchEmbedChunks>>
  /\ UNCHANGED toolVars

\* embedDocuments(docs): _embedDocumentsContent up to its await; the map
\* issues one embedContent call per chunk before anything is awaited
EmbedDocuments ==
  /\ inst.status = "ok"
  /\ Idle
  /\ \E n \in DocLens :
       LET docs == DocList(n)
           chunks == chunkArray(docs, maxBatchSize)
       IN /\ documents' = docs
          /\ batchEmbedChunks' = chunks
          /\ requests' = [c \in 1..Len(chunks) |->
                            EmbedRequest(inst, [i \in 1..Len(chunks[c]) |->
                                                  _cleanText(inst, chunks[c][i])])]
          /\ responses' = [c \in 1..Len(chunks) |-> Pending]
  /\ pc' = "d_wait"
  /\ text' = <<>>
  /\ result' = NoResult
  /\ UNCHANGED <<ctorArgs, inst>>
  /\ UNCHANGED toolVars

\* the vendor settles one pending chunk request, in any order
ChunkSettle ==
  /\ pc = "d_wait"
  /\ \E c \in 1..Len(responses) :
       /\ responses[c].status = "pending"
       /\ \E res \in VendorResponses(requests[c].contents) :
            responses' = [responses EXCEPT ![c] = res]
  /\ UNCHANGED <<ctorArgs, inst, pc, requests, text, documents, batchEmbedChunks, result>>
  /\ UNCHANGED toolVars

\* Promise.allSettled resolves; the outcomes are flat-mapped and returned
CollectEmbeddings ==
  /\ pc = "d_wait"
  /\ AllSettled(responses)
  /\ result' = [status |-> "fulfilled",
                value |-> Flatten([c \in 1..Len(responses) |->
                                     ChunkEmbeddings(responses[c], batchEmbedChunks[c])])]
  /\ pc' = "d_done"
  /\ UNCHANGED <<ctorArgs, inst, requests, text, documents, batchEmbedChunks, responses>>
  /\ UNCHANGED toolVars

NextEmb ==
  \/ Construct
  \/ SetStripNewLines
  \/ EmbedQuery
  \/ QuerySettle
  \/ EmbedDocuments
  \/ ChunkSettle
  \/ CollectEmbeddings

SpecEmb == Init /\ [][NextEmb]_vars

----------------------------------------------------------------------------
(* Tool normalizer: inputs *)

\* A tool descriptor as the duck-typed checks see it:
\*   lc                    a framework structured tool (name, schema)
\*   type, function        the OpenAI-style keys
\*   fdKey                 "functionDeclarations" in tool
\*   functionDeclarations  the value under that key
\*   other                 another native key, such as codeExecution
BlankTool ==
  [lc |-> FALSE, name |-> "", parameters |-> "", type |-> "", function |-> Undefined,
   fdKey |-> FALSE, functionDeclarations |-> Undefined, other |-> ""]

StructuredTool(name, parameters) ==
  [BlankTool EXCEPT !.lc = TRUE, !.name = name, !.parameters = parameters]

OpenAITool(name, parameters) ==
  [BlankTool EXCEPT !.type = "function",
                    !.function = Some([name |-> name, parameters |-> parameters])]

Declaration(name, parameters) == [name |-> name, parameters |-> parameters]

NativeGroup(fds, other) ==
  [BlankTool EXCEPT !.fdKey = TRUE, !.functionDeclarations = fds, !.other = other]

NativeOther(other) == [BlankTool EXCEPT !.other = other]

ToolSet ==
  { StructuredTool("search", "schema"),
    StructuredTool("calc", "schema+additionalProperties"),
    OpenAITool(Some("weather"), Some("schema+additionalProperties")),
    OpenAITool(Some("broken"), Undefined),
    NativeGroup(Some(<<Declaration("g1", "schema")>>), ""),
    NativeGroup(Some(<<Declaration("g2a", "schema"), Declaration("g2b", "schema")>>),
                "codeExecution"),
    NativeGroup(Undefined, ""),
    NativeOther("codeExecution"),
    NativeOther("googleSearch") }

ToolLists == SeqsUpTo(ToolSet, MaxTools)

\* toolChoice: a string (str) or an object
ToolChoices ==
  {Undefined} \cup {Some([str |-> TRUE, value |-> v]) : v \in {"any", "auto", "none", "search", ""}}
              \cup {Some([str |-> FALSE, value |-> "object"])}

AllowedNames == {Undefined, Some(<<>>), Some(<<"calc">>)}

Extras ==
  {Undefined} \cup {Some([toolChoice |-> tc, allowedFunctionNames |-> afn]) :
                      tc \in ToolChoices, afn \in AllowedNames}

----------------------------------------------------------------------------
(* Tool normalizer: code *)

isLangChainTool(tool) == tool.lc

isOpenAITool(tool) ==
  /\ ~tool.lc
  /\ tool.type = "function"
  /\ tool.function # Undefined
  /\ tool.function[1].name # Undefined
  /\ tool.function[1].parameters # Undefined

removeAdditionalProperties(parameters) ==
  IF parameters = "schema+additionalProperties" THEN "schema" ELSE parameters

\* convertToGenerativeAITools([tool]): one tool holding one declaration per input.
convertToGenerativeAITools(structuredTools) ==
  <<[functionDeclarations |->
       Some([i \in 1..Len(structuredTools) |->
               Declaration(structuredTools[i].name,
                           removeAdditionalProperties(structuredTools[i].parameters))])]>>

convertOpenAIToolToGenAI(tool) ==
  [functionDeclarations |->
     Some(<<Declaration(tool.function[1].name[1],
                        removeAdditionalProperties(tool.function[1].parameters[1]))>>)]

ConversionFailure ==
  [status |-> "error", tools |-> <<>>, toolConfig |-> Undefined,
   message |-> "Failed to convert OpenAI structured tool to GenerativeAI tool"]

NoDeclarations == [functionDeclarationTools |-> <<>>, genAITools |-> <<>>, thrown |-> FALSE]

PushToolPrepending(acc, tool) ==
  IF acc.thrown THEN acc
  ELSE IF isLangChainTool(tool)
  THEN LET convertedTool == convertToGenerativeAITools(<<tool>>)[1]
       IN IF convertedTool.functionDeclarations # Undefined
          THEN [acc EXCEPT !.functionDeclarationTools = convertedTool.functionDeclarations[1] \o @]
          ELSE acc
  ELSE IF isOpenAITool(tool)
  THEN LET functionDeclarations == convertOpenAIToolToGenAI(tool).functionDeclarations
       IN IF functionDeclarations # Undefined
          THEN [acc EXCEPT !.functionDeclarationTools = functionDeclarations[1] \o @]
          ELSE [acc EXCEPT !.thrown = TRUE]
  ELSE [acc EXCEPT !.genAITools = Append(@, tool)]

\* The body of tools.forEach in processTools.
PushTool(acc, tool) ==
  IF acc.thrown THEN acc
  ELSE IF isLangChainTool(tool)
  THEN LET convertedTool == convertToGenerativeAITools(<<tool>>)[1]
       IN IF convertedTool.functionDeclarations # Undefined
          THEN [acc EXCEPT !.functionDeclarationTools = @ \o convertedTool.functionDeclarations[1]]
          ELSE acc
  ELSE IF isOpenAITool(tool)
  THEN LET functionDeclarations == convertOpenAIToolToGenAI(tool).functionDeclarations
       IN IF functionDeclarations # Undefined
          THEN [acc EXCEPT !.functionDeclarationTools = @ \o functionDeclarations[1]]
          ELSE [acc EXCEPT !.thrown = TRUE]
  ELSE [acc EXCEPT !.genAITools = Append(@, tool)]

RECURSIVE ForEachTool(_, _)
ForEachTool(acc, tools) ==
  IF tools = <<>> THEN acc ELSE ForEachTool(PushTool(acc, Head(tools)), Tail(tools))

\* tool.functionDeclarations || []
OwnDeclarations(tool) ==
  IF tool.functionDeclarations = Undefined THEN <<>> ELSE tool.functionDeclarations[1]

NewGroup(fds) == [BlankTool EXCEPT !.fdKey = TRUE, !.functionDeclarations = Some(fds)]

RECURSIVE MergeIntoEveryGroup(_, _)
MergeIntoEveryGroup(genAITools, functionDeclarationTools) ==
  IF genAITools = <<>> THEN <<>>
  ELSE LET tool == Head(genAITools)
       IN IF Len(functionDeclarationTools) > 0 /\ tool.fdKey
          THEN <<NewGroup(OwnDeclarations(tool) \o functionDeclarationTools)>>
               \o MergeIntoEveryGroup(Tail(genAITools), functionDeclarationTools)
          ELSE <<tool>> \o MergeIntoEveryGroup(Tail(genAITools), functionDeclarationTools)

RECURSIVE MergeReplacingOwn(_, _)
MergeReplacingOwn(genAITools, functionDeclarationTools) ==
  IF genAITools = <<>> THEN <<>>
  ELSE LET tool == Head(genAITools)
       IN IF Len(functionDeclarationTools) > 0 /\ tool.fdKey
          THEN <<NewGroup(functionDeclarationTools)>>
               \o MergeReplacingOwn(Tail(genAITools), <<>>)
          ELSE <<tool>> \o MergeReplacingOwn(Tail(genAITools), functionDeclarationTools)

\* genAITools.map(...) of processTools: the first tool with the key absorbs
\* the converted declarations, which are then cleared.
RECURSIVE MergeIntoFirstGroup(_, _)
MergeIntoFirstGroup(genAITools, functionDeclarationTools) ==
  IF genAITools = <<>> THEN <<>>
  ELSE LET tool == Head(genAITools)
       IN IF Len(functionDeclarationTools) > 0 /\ tool.fdKey
          THEN <<NewGroup(OwnDeclarations(tool) \o functionDeclarationTools)>>
               \o MergeIntoFirstGroup(Tail(genAITools), <<>>)
          ELSE <<tool>> \o MergeIntoFirstGroup(Tail(genAITools), functionDeclarationTools)

\* The result of processTools: the tool list, or the thrown error.
processTools(tools) ==
  LET acc == ForEachTool(NoDeclarations, tools)
  IN IF acc.thrown THEN ConversionFailure
     ELSE [status |-> "ok", toolConfig |-> Undefined, message |-> "",
           tools |->
             IF \E i \in 1..Len(acc.genAITools) : acc.genAITools[i].fdKey
             THEN MergeIntoFirstGroup(acc.genAITools, acc.functionDeclarationTools)
             ELSE acc.genAITools \o
                  (IF Len(acc.functionDeclarationTools) > 0
                   THEN <<NewGroup(acc.functionDeclarationTools)>>
                   ELSE <<>>)]

modeMap(toolChoice) ==
  CASE toolChoice = "any" -> "ANY"
    [] toolChoice = "auto" -> "AUTO"
    [] toolChoice = "none" -> "NONE"
    [] OTHER -> "MODE_UNSPECIFIED"

\* JavaScript truthiness of toolChoice: undefined and "" are falsy, an object truthy.
ToolChoiceTruthy(tc) == tc # Undefined /\ (tc[1].str => tc[1].value # "")

IsString(tc) == tc # Undefined /\ tc[1].str

createToolConfigChoiceOnly(genAITools, extra) ==
  IF Len(genAITools) = 0 \/ extra = Undefined THEN Undefined
  ELSE LET toolChoice == extra[1].toolChoice
           allowedFunctionNames == extra[1].allowedFunctionNames
       IN IF ToolChoiceTruthy(toolChoice) /\ IsString(toolChoice)
             /\ toolChoice[1].value \in {"any", "auto", "none"}
          THEN Some([mode |-> modeMap(toolChoice[1].value),
                     allowedFunctionNames |-> allowedFunctionNames])
          ELSE IF IsString(toolChoice) \/ allowedFunctionNames # Undefined
          THEN Some([mode |-> "ANY",
                     allowedFunctionNames |->
                       Some(IF ToolChoiceTruthy(toolChoice) /\ IsString(toolChoice)
                            THEN <<toolChoice[1].value>>
                            ELSE IF allowedFunctionNames = Undefined THEN <<>>
                            ELSE allowedFunctionNames[1])])
          ELSE Undefined

createToolConfig(genAITools, extra) ==
  IF Len(genAITools) = 0 \/ extra = Undefined THEN Undefined
  ELSE LET toolChoice == extra[1].toolChoice
           allowedFunctionNames == extra[1].allowedFunctionNames
       IN IF ToolChoiceTruthy(toolChoice) /\ IsString(toolChoice)
             /\ toolChoice[1].value \in {"any", "auto", "none"}
          THEN Some([mode |-> modeMap(toolChoice[1].value),
                     allowedFunctionNames |-> allowedFunctionNames])
          ELSE IF IsString(toolChoice) \/ allowedFunctionNames # Undefined
          THEN Some([mode |-> "ANY",
                     allowedFunctionNames |->
                       Some((IF allowedFunctionNames = Undefined THEN <<>>
                             ELSE allowedFunctionNames[1])
                            \o (IF ToolChoiceTruthy(toolChoice) /\ IsString(toolChoice)
                                THEN <<toolChoice[1].value>> ELSE <<>>))])
          ELSE Undefined

convertToolsToGenAI(tools, extra) ==
  LET genAITools == processTools(tools)
  IN IF genAITools.status = "error" THEN genAITools
     ELSE [genAITools EXCEPT !.toolConfig = createToolConfig(genAITools.tools, extra)]

----------------------------------------------------------------------------
(* Tool normalizer: action *)

\* convertToolsToGenAI(tools, extra)
ConvertTools ==
  /\ toolsOut.status = "none"
  /\ \E tools \in ToolLists, extra \in Extras :
       /\ toolsIn' = tools
       /\ extraIn' = extra
       /\ toolsOut' = convertToolsToGenAI(tools, extra)
  /\ UNCHANGED <<ctorArgs, inst, pc, requests, text, documents, batchEmbedChunks,
                 responses, result>>

NextTools == ConvertTools

SpecTools == Init /\ [][NextTools]_vars

----------------------------------------------------------------------------
(* Embeddings client: properties *)

\* The chunk (1-based) and the position inside it of the i-th input document.
ChunkOf(i) == ((i - 1) \div maxBatchSize) + 1

PosInChunk(i) == ((i - 1) % maxBatchSize) + 1

\* What the vendor returned for the i-th input document: its vector, or the
\* empty vector when the chunk was rejected or the item carries no values.
VectorFor(i) ==
  LET res == responses[ChunkOf(i)]
  IN IF res.status # "fulfilled" \/ res.embeddings = Undefined THEN <<>>
     ELSE IF PosInChunk(i) > Len(res.embeddings[1]) THEN <<>>
     ELSE IF res.embeddings[1][PosInChunk(i)].values = Undefined THEN <<>>
     ELSE res.embeddings[1][PosInChunk(i)].values[1]

\* C1: whatever the per-chunk vendor outcomes, embedDocuments returns one
\* vector per input document, the i-th vector belonging to the i-th document,
\* with empty vectors at the positions of a rejected chunk.
C1_OutputAlignedWithInput ==
  pc = "d_done" =>
    /\ Len(result.value) = Len(documents)
    /\ \A i \in 1..Len(documents) : result.value[i] = VectorFor(i)

CeilDiv(a, b) == (a + b - 1) \div b

\* C2: the batch path issues exactly one request per chunk of at most
\* maxBatchSize items, all of them before any settles and none more while or
\* after they settle; it completes only when every request has settled, in
\* whatever order, never rejects, and keeps the vectors of every fulfilled
\* chunk.
C2_FanOutSettlesIndependently ==
  /\ pc \in {"d_wait", "d_done"} =>
       /\ Len(requests) = CeilDiv(Len(documents), maxBatchSize)
       /\ Len(requests) = Len(batchEmbedChunks)
       /\ \A c \in 1..Len(batchEmbedChunks) :
            /\ Len(batchEmbedChunks[c]) \in 1..maxBatchSize
            /\ Len(requests[c].contents) = Len(batchEmbedChunks[c])
       /\ Flatten(batchEmbedChunks) = documents
       /\ Len(responses) = Len(requests)
  /\ pc = "d_done" =>
       /\ \A c \in 1..Len(responses) : responses[c].status # "pending"
       /\ result.status = "fulfilled"
       /\ \A c \in 1..Len(responses) :
            (responses[c].status = "fulfilled" /\ responses[c].embeddings # Undefined) =>
              \A k \in 1..Len(responses[c].embeddings[1]) :
                responses[c].embeddings[1][k].values # Undefined =>
                  responses[c].embeddings[1][k].values[1] \in Range(result.value)

C2_Witness ==
  /\ pc = "d_done"
  /\ Len(responses) = 3
  /\ responses[2].status = "rejected"
  /\ responses[3].status = "fulfilled"
  /\ responses[1].status = "fulfilled"
  /\ responses[1].embeddings # Undefined
  /\ responses[1].embeddings[1][1].values # Undefined
  /\ result.status = "fulfilled"

TitleSet(fields) == fields.title # Undefined /\ fields.title[1] # ""

CredentialAvailable(fields, env) ==
  \/ fields.apiKey # Undefined /\ fields.apiKey[1] # ""
  \/ env # Undefined /\ env[1] # ""

\* C7: construction fails, with no vendor client created and no request made,
\* exactly when a title is set without taskType "RETRIEVAL_DOCUMENT" or when
\* neither the apiKey field nor GOOGLE_API_KEY holds a non-empty credential.
C7_ConstructionFailsExactlyOnBadInput ==
  ctorArgs # Undefined =>
    LET fields == ctorArgs[1].fields
        env == ctorArgs[1].env
        mustFail == \/ TitleSet(fields) /\ fields.taskType # Some("RETRIEVAL_DOCUMENT")
                    \/ ~CredentialAvailable(fields, env)
    IN /\ (inst.status = "error") <=> mustFail
       /\ (inst.status = "ok") <=> ~mustFail
       /\ inst.status = "error" => (~inst.client /\ requests = <<>>)

StringSet(opt) == opt # Undefined /\ opt[1] # ""

\* C8: every embedContent request of embedQuery and embedDocuments carries a
\* config holding exactly the fields among taskType, title and
\* outputDimensionality that the caller set, with the caller's values, and no
\* config at all when none is set.
C8_ConfigHoldsExactlySetFields ==
  \A r \in 1..Len(requests) :
    LET fields == ctorArgs[1].fields
        config == requests[r].config
    IN IF ~StringSet(fields.taskType) /\ ~StringSet(fields.title)
          /\ fields.outputDimensionality = Undefined
       THEN config = Undefined
       ELSE /\ config # Undefined
            /\ config[1].taskType = (IF StringSet(fields.taskType) THEN fields.taskType ELSE Undefined)
            /\ config[1].title = (IF StringSet(fields.title) THEN fields.title ELSE Undefined)
            /\ config[1].outputDimensionality = fields.outputDimensionality

C8_Witness ==
  /\ pc = "d_wait"
  /\ Len(requests) = 2
  /\ requests[2].config = Some([taskType |-> Undefined, title |-> Undefined,
                                 outputDimensionality |-> Some(0)])

----------------------------------------------------------------------------
(* Tool normalizer: properties *)

Converted == toolsOut.status # "none"

IsConvertible(tool) == isLangChainTool(tool) \/ isOpenAITool(tool)

IsNative(tool) == ~IsConvertible(tool)

NativeInputs == SelectSeq(toolsIn, IsNative)

\* The declaration a convertible tool converts to.
ConvertedDeclaration(tool) ==
  IF isLangChainTool(tool)
  THEN convertToGenerativeAITools(<<tool>>)[1].functionDeclarations[1][1]
  ELSE convertOpenAIToolToGenAI(tool).functionDeclarations[1][1]

\* The converted declarations of the convertible tools, in input order.
RECURSIVE ConvertedDeclarations(_)
ConvertedDeclarations(tools) ==
  IF tools = <<>> THEN <<>>
  ELSE (IF IsConvertible(Head(tools)) THEN <<ConvertedDeclaration(Head(tools))>> ELSE <<>>)
       \o ConvertedDeclarations(Tail(tools))

OnlyLangChainTools == \A i \in 1..Len(toolsIn) : isLangChainTool(toolsIn[i])

OneGroupOfAllConverted ==
  /\ toolsOut.status = "ok"
  /\ Len(toolsOut.tools) = 1
  /\ toolsOut.tools[1].fdKey
  /\ toolsOut.tools[1].functionDeclarations = Some(ConvertedDeclarations(toolsIn))

\* C3 (as stated): for any input list of only framework-native tools the
\* output is exactly one group holding the converted declarations in order.
C3_AnyLangChainListGivesOneGroup ==
  (Converted /\ OnlyLangChainTools) => OneGroupOfAllConverted

\* C3 (amended): for any non-empty input list of only framework-native tools
\* the output is exactly one group holding each tool's converted declaration,
\* in input order.
C3_NonEmptyLangChainListGivesOneGroup ==
  (Converted /\ OnlyLangChainTools /\ Len(toolsIn) > 0) => OneGroupOfAllConverted

C3_Witness ==
  /\ Converted
  /\ OnlyLangChainTools
  /\ Len(toolsIn) = 3
  /\ toolsIn[1] # toolsIn[2]
  /\ Len(toolsOut.tools) = 1

FirstGroupIndex(tools) ==
  CHOOSE i \in 1..Len(tools) : tools[i].fdKey /\ \A j \in 1..(i - 1) : ~tools[j].fdKey

\* C4: when the input holds a native functionDeclarations group together with
\* framework-native or OpenAI-style tools, the converted declarations are
\* appended after the own declarations of the first such group and nowhere
\* else, no entry is added, and every other native tool is passed unchanged.
C4_MergeIntoFirstGroupOnly ==
  (/\ Converted
   /\ \E i \in 1..Len(NativeInputs) : NativeInputs[i].fdKey
   /\ \E i \in 1..Len(toolsIn) : IsConvertible(toolsIn[i]))
  => /\ toolsOut.status = "ok"
     /\ Len(toolsOut.tools) = Len(NativeInputs)
     /\ LET f == FirstGroupIndex(NativeInputs)
        IN /\ toolsOut.tools[f].fdKey
           /\ toolsOut.tools[f].functionDeclarations =
                Some(OwnDeclarations(NativeInputs[f]) \o ConvertedDeclarations(toolsIn))
           /\ \A k \in 1..Len(NativeInputs) : k # f => toolsOut.tools[k] = NativeInputs[k]

C4_Witness ==
  /\ Converted
  /\ Len(toolsIn) = 3
  /\ Len(NativeInputs) = 2
  /\ NativeInputs[1].fdKey
  /\ NativeInputs[2].fdKey
  /\ NativeInputs[1].functionDeclarations # Undefined
  /\ Len(toolsOut.tools) = 2
  /\ toolsOut.tools[2] = NativeInputs[2]
  /\ Len(toolsOut.tools[1].functionDeclarations[1])
       = Len(NativeInputs[1].functionDeclarations[1]) + 1

ChoiceString == extraIn # Undefined /\ IsString(extraIn[1].toolChoice)

ChoiceValue == extraIn[1].toolChoice[1].value

AllowedGiven ==
  IF extraIn[1].allowedFunctionNames = Undefined THEN <<>>
  ELSE extraIn[1].allowedFunctionNames[1]

UpperMode(choice) ==
  IF choice = "any" THEN "ANY" ELSE IF choice = "auto" THEN "AUTO" ELSE "NONE"

ChoiceHonoured ==
  /\ toolsOut.toolConfig # Undefined
  /\ IF ChoiceValue \in {"any", "auto", "none"}
     THEN toolsOut.toolConfig[1].mode = UpperMode(ChoiceValue)
     ELSE /\ toolsOut.toolConfig[1].mode = "ANY"
          /\ toolsOut.toolConfig[1].allowedFunctionNames
               = Some(AllowedGiven \o <<ChoiceValue>>)

\* C5 (as stated): tool-choice "any"/"auto"/"none" gives a tool config with
\* the matching mode; any other string gives mode ANY with the allowed names
\* followed by that string.
C5_StringChoiceAlwaysHonoured ==
  (toolsOut.status = "ok" /\ ChoiceString) => ChoiceHonoured

\* C5 (amended): when the returned tool list is non-empty, tool-choice
\* "any"/"auto"/"none" gives a tool config with the matching mode, and any
\* other non-empty string gives mode ANY with the allowed names followed by
\* that string.
C5_StringChoiceHonouredWithTools ==
  (toolsOut.status = "ok" /\ ChoiceString /\ ChoiceValue # "" /\ Len(toolsOut.tools) > 0)
  => ChoiceHonoured

C5_Witness ==
  /\ toolsOut.status = "ok"
  /\ Len(toolsOut.tools) > 0
  /\ ChoiceString
  /\ ChoiceValue = "search"
  /\ toolsOut.toolConfig = Some([mode |-> "ANY",
                                 allowedFunctionNames |-> Some(<<"calc", "search">>)])

\* An OpenAI-style tool ({type: "function", function: ...}) that lacks a name
\* or its parameters.
MalformedOpenAITool(tool) ==
  /\ ~tool.lc
  /\ tool.type = "function"
  /\ \/ tool.function = Undefined
     \/ tool.function[1].name = Undefined
     \/ tool.function[1].parameters = Undefined

MessageNames(message, tool) ==
  /\ tool.function # Undefined
  /\ tool.function[1].name # Undefined
  /\ message = "Failed to convert OpenAI structured tool " \o tool.function[1].name[1]

\* C6: a malformed OpenAI-style tool in the input makes the operation fail
\* with a conversion error naming that tool, and nothing is returned.
C6_MalformedOpenAIToolFails ==
  \A i \in 1..Len(toolsIn) :
    (Converted /\ MalformedOpenAITool(toolsIn[i])) =>
      /\ toolsOut.status = "error"
      /\ toolsOut.tools = <<>>
      /\ toolsOut.toolConfig = Undefined
      /\ \E j \in 1..Len(toolsIn) :
           MalformedOpenAITool(toolsIn[j]) /\ MessageNames(toolsOut.message, toolsIn[j])

Count(d, decls) == Cardinality({i \in 1..Len(decls) : decls[i] = d})

RECURSIVE IsSubsequence(_, _)
IsSubsequence(a, b) ==
  IF a = <<>> THEN TRUE
  ELSE IF b = <<>> THEN FALSE
  ELSE IF Head(a) = Head(b) THEN IsSubsequence(Tail(a), Tail(b))
  ELSE IsSubsequence(a, Tail(b))

IsPrefix(a, b) == Len(a) <= Len(b) /\ SubSeq(b, 1, Len(a)) = a

DeclarationsOf(tools) == Flatten([i \in 1..Len(tools) |-> OwnDeclarations(tools[i])])

\* C10: on success no declaration is lost or duplicated: the output's
\* declarations are the native groups' own ones plus each converted one, each
\* exactly once; converted declarations and native tools keep their input
\* order, and native tools without a functionDeclarations key are unchanged.
C10_NoDeclarationLostOrDuplicated ==
  toolsOut.status = "ok" =>
    LET out == DeclarationsOf(toolsOut.tools)
        own == DeclarationsOf(NativeInputs)
        conv == ConvertedDeclarations(toolsIn)
    IN /\ Len(out) = Len(own) + Len(conv)
       /\ \A d \in Range(out) \cup Range(own) \cup Range(conv) :
            Count(d, out) = Count(d, own) + Count(d, conv)
       /\ IsSubsequence(conv, out)
       /\ IsSubsequence(own, out)
       /\ Len(toolsOut.tools) >= Len(NativeInputs)
       /\ \A k \in 1..Len(NativeInputs) :
            IF NativeInputs[k].fdKey
            THEN /\ toolsOut.tools[k].fdKey
                 /\ IsPrefix(OwnDeclarations(NativeInputs[k]), OwnDeclarations(toolsOut.tools[k]))
            ELSE toolsOut.tools[k] = NativeInputs[k]

C10_Witness ==
  /\ toolsOut.status = "ok"
  /\ Len(toolsIn) = 3
  /\ Len(NativeInputs) = 2
  /\ ~NativeInputs[1].fdKey
  /\ NativeInputs[2].fdKey
  /\ Len(OwnDeclarations(NativeInputs[2])) = 2
  /\ IsConvertible(toolsIn[1])
  /\ Len(DeclarationsOf(toolsOut.tools)) = 3

====
